---- MODULE Spec2Model ----
(***************************************************************************)
(* State-machine model of the GitHub profile generator                     *)
(* (src/src/classes/GitHubProfileGenerator.class.ts, src/src/index.ts and  *)
(* the earlier revision of the class kept in src/unnamed/part_001).        *)
(*                                                                         *)
(* Time is counted in whole hours since the epoch; a UTC calendar date is  *)
(* the day number (hours \div 24).                                         *)
(***************************************************************************)
EXTENDS Integers, Sequences, FiniteSets, TLC

VARIABLES
    remote,     \* the remote repository listing: [n, ver]
    changes,    \* how many times the remote listing has changed so far
    fetch,      \* one fetchRepositories activation per caller
    clock,      \* [now, yearDays]: the current time and the length of the past year
    activity,   \* the subject user's activity: [recent, tail, perDay]
    sk,         \* the streak calculator's activation
    env,        \* [token, profile]: the credential's presence and the remote profile
    pc,         \* where main / generate / collectStats stands
    run,        \* collectStats' locals: [userData, repos, commits]
    cm,         \* fetchCommitCountGraphQL / fetchCommitCountFromRepos' activation
    batch,      \* the five promises handed to Promise.all
    out         \* [built, stats, files]: the record built and the files written

fetchVars == <<remote, changes, fetch>>
streakVars == <<clock, activity, sk>>
runVars == <<env, pc, run, cm, batch, out>>
vars == <<remote, changes, fetch, clock, activity, sk, env, pc, run, cm, batch, out>>

\* ------------------------------------------------------------------ bounds
MaxRepos == 201
MaxChanges == 1
MaxVer == 1
MaxRunRepos == 1     \* repositories of the remote at the start of a whole run
MaxBatchRepos == 3   \* repositories of the remote when the batch runs alone
MaxCommitRepos == 5  \* repositories of the remote when the commit count runs alone
MaxRecent == 4       \* activity is drawn freely over the last MaxRecent days
MaxPerDay == 2       \* events per active day in the public-events feed
History == 370       \* how many days back a long-standing activity reaches
Today == 400         \* the UTC day number of "today"

\* ------------------------------------------------------- program constants
per_page == 100
HoursPerDay == 24
MaxEventPages == 3
StreakFallback == 0
StreakFallbackV1 == 47
PullRequestFallback == 89
IssueFallback == 156
CommitFallback == 1247
LinesPerRepo == 500
JitterRange == 5000

\* ------------------------------------------------------------- helpers
Min(a, b) == IF a < b THEN a ELSE b
Max(a, b) == IF a < b THEN b ELSE a

\* Loops over long sequences are folded by halves, so that the evaluation depth
\* stays logarithmic; each loop body is its own definition.
RECURSIVE SumRange(_, _, _)
SumRange(s, lo, hi) ==
    IF lo > hi THEN 0
    ELSE IF lo = hi THEN s[lo]
    ELSE LET mid == (lo + hi) \div 2
         IN  SumRange(s, lo, mid) + SumRange(s, mid + 1, hi)

SumSeq(s) == SumRange(s, 1, Len(s))

\* ------------------------------------------------- the remote data source
\* A repository descriptor as the listing endpoint serves it.  The listing of
\* a remote [n, ver] holds n repositories; ver selects the star counts and the
\* serving order ("sort: updated" is the source's order, not the program's).
RepoAt(i, r) ==
    LET nm == ((i - 1 + r.ver) % r.n) + 1
    IN  [name |-> nm, fork |-> (nm % 2 = 0),
         stargazers_count |-> <<3, 0, 7, 5>>[((nm - 1) % 4) + 1] + r.ver]

Listing(r) == [i \in 1..r.n |-> RepoAt(i, r)]

\* octokit.repos.listForUser({per_page: 100, page}): one page of the listing.
listForUser(r, page) ==
    SubSeq(Listing(r), (page - 1) * per_page + 1, Min(page * per_page, r.n))

\* A repository is created, deleted or starred while a page request is under
\* way (the listing is only ever seen through listForUser).
RemoteChange ==
    /\ changes < MaxChanges
    /\ \E c \in DOMAIN fetch : fetch[c].pc = "await"
    /\ \E r \in { [remote EXCEPT !.n = remote.n + 1], [remote EXCEPT !.n = remote.n - 1],
                  [remote EXCEPT !.ver = remote.ver + 1] } :
          /\ r.n \in 0..MaxRepos
          /\ r.ver \in 0..MaxVer
          /\ remote' = r
    /\ changes' = changes + 1
    /\ UNCHANGED <<fetch, streakVars, runVars>>

\* ------------------------------------------------------ fetchRepositories
Callers == {"collect", "commits", "stars", "loc"}

IdleFrame == [pc |-> "idle", page |-> 1, allRepos |-> <<>>, requested |-> <<>>]

\* let allRepos = []; let page = 1; let hasMore = true; first listForUser issued.
CallFrame == [pc |-> "await", page |-> 1, allRepos |-> <<>>, requested |-> <<1>>]

\* Mutant: hasMore = data.length > 100, so that a full page ends the loop.
FetchStepOk_FullPageStops(f, data) ==
    [f EXCEPT !.allRepos = f.allRepos \o data, !.page = f.page + 1, !.pc = "done"]

\* Mutant: hasMore = data.length > 0, so that only an empty page ends the loop.
FetchStepOk_UntilEmpty(f, data) ==
    [f EXCEPT !.allRepos = f.allRepos \o data,
              !.page = f.page + 1,
              !.pc = IF Len(data) > 0 THEN "await" ELSE "done",
              !.requested = IF Len(data) > 0 THEN Append(f.requested, f.page + 1)
                            ELSE f.requested]

\* One iteration of the while loop, from the page's arrival to the next await
\* (or to the return): concat, hasMore, page++.
FetchStepOk(f, data) ==
    LET hasMore == Len(data) = per_page
        page    == f.page + 1
    IN  [f EXCEPT !.allRepos = f.allRepos \o data,
                  !.page = page,
                  !.pc = IF hasMore THEN "await" ELSE "done",
                  !.requested = IF hasMore THEN Append(f.requested, page) ELSE f.requested]

\* --------------------------------------------------- dates and the activity
\* pc, page, allEvents and result are the activation's own state; rev (which
\* revision runs), calendar and feed (how the queries ended) and requested (the
\* events pages asked for) record what happened.
IdleStreak == [pc |-> "idle", rev |-> "current", page |-> 1, allEvents |-> <<>>,
               result |-> -1, calendar |-> "none", feed |-> "none", requested |-> <<>>]


\* new Date("YYYY-MM-DD") / new Date(created_at): a date string (a day number)
\* parses to the time of its UTC midnight.
ParseDate(d) == d * HoursPerDay

\* d.setUTCHours(0, 0, 0, 0)
UTCMidnight(t) == t - (t % HoursPerDay)

\* d.setUTCDate(d.getUTCDate() - 1)
PrevUTCDate(t) == t - HoursPerDay

\* new Date(t).toISOString().split("T")[0]: the UTC date of a time.
ISODate(t) == t \div HoursPerDay

\* The days on which the subject user was active.
ActiveDays(a) ==
    {Today - o : o \in a.recent}
        \cup (IF a.tail THEN {Today - o : o \in MaxRecent..History} ELSE {})

Activities == [recent : SUBSET (0..(MaxRecent - 1)), tail : BOOLEAN, perDay : 1..MaxPerDay]

\* The contribution calendar of the window [from, to], both end days included,
\* as the query-language endpoint returns it: weeks of contributionDays.
ContributionDay(a, d) ==
    [date |-> d, contributionCount |-> IF d \in ActiveDays(a) THEN 1 + (d % 2) ELSE 0]

CalendarWeeks(a, from, to) ==
    LET first == ISODate(from)
        m     == ISODate(to) - first + 1
    IN  [w \in 1..((m + 6) \div 7) |->
            [k \in 1..Min(7, m - 7 * (w - 1)) |-> ContributionDay(a, first + 7 * (w - 1) + k - 1)]]

\* The public-events feed, newest first: every active day carries a.perDay events.
SetMax(S) == CHOOSE x \in S : \A y \in S : y <= x
SetMin(S) == CHOOSE x \in S : \A y \in S : x <= y

\* The elements of a set of day numbers as a sequence, largest first.
SortedDesc(S) ==
    IF S = {} THEN <<>>
    ELSE LET hi == SetMax(S)
         IN  SelectSeq([i \in 1..(hi - SetMin(S) + 1) |-> hi - i + 1], LAMBDA d : d \in S)

EventFeed(a) ==
    LET days == SortedDesc(ActiveDays(a))
    IN  [i \in 1..(Len(days) * a.perDay) |->
            [created_at |-> ParseDate(days[((i - 1) \div a.perDay) + 1]) + ((i - 1) % a.perDay)]]

\* octokit.activity.listPublicEventsForUser({per_page: 100, page})
listPublicEventsForUser(a, page) ==
    LET feed == EventFeed(a)
    IN  SubSeq(feed, (page - 1) * per_page + 1, Min(page * per_page, Len(feed)))

\* ---------------------------------------------- calculateStreakGraphQL (pure part)
RECURSIVE flatMap(_)
flatMap(weeks) == IF weeks = <<>> THEN <<>> ELSE Head(weeks) \o flatMap(Tail(weeks))

\* .sort((a, b) => b.getTime() - a.getTime()): newest first.
RECURSIVE InsertNewestFirst(_, _)
InsertNewestFirst(t, s) ==
    IF s = <<>> THEN <<t>>
    ELSE IF t >= Head(s) THEN <<t>> \o s
    ELSE <<Head(s)>> \o InsertNewestFirst(t, Tail(s))

\* acc holds s[1..lo-1] sorted; its length is read first, so that the
\* accumulator is evaluated before the next insertion.
RECURSIVE SortRange(_, _, _, _)
SortRange(s, lo, hi, acc) ==
    IF Len(acc) < lo - 1 \/ lo > hi THEN acc
    ELSE IF lo = hi THEN InsertNewestFirst(s[lo], acc)
    ELSE LET mid == (lo + hi) \div 2
         IN  SortRange(s, mid + 1, hi, SortRange(s, lo, mid, acc))

SortNewestFirst(s) == SortRange(s, 1, Len(s), <<>>)

\* weeks.flatMap(...).filter(count > 0).map(new Date(d.date)).sort(newest first)
contributionDays(weeks) ==
    LET days == SelectSeq(flatMap(weeks), LAMBDA d : d.contributionCount > 0)
    IN  SortNewestFirst([i \in 1..Len(days) |-> ParseDate(days[i].date)])

\* Mutant: the expected date is not moved back after a match.
BackwardStep_CursorStays(currentDay, w) ==
    IF UTCMidnight(currentDay) = w.expectedDate
    THEN [w EXCEPT !.streak = w.streak + 1]
    ELSE [w EXCEPT !.broken = TRUE]

\* The body of for (let i = 1; i < contributionDays.length; i++): lines 249-257.
\* w = [streak, expectedDate, broken].
BackwardStep(currentDay, w) ==
    IF UTCMidnight(currentDay) = w.expectedDate
    THEN [w EXCEPT !.streak = w.streak + 1, !.expectedDate = PrevUTCDate(w.expectedDate)]
    ELSE [w EXCEPT !.broken = TRUE]

\* The loop over days[lo..hi], stopping at the break.
RECURSIVE CountBackward(_, _, _, _)
CountBackward(days, lo, hi, w) ==
    IF w.broken \/ lo > hi THEN w
    ELSE IF lo = hi THEN BackwardStep(days[lo], w)
    ELSE LET mid == (lo + hi) \div 2
         IN  CountBackward(days, mid + 1, hi, CountBackward(days, lo, mid, w))

\* Lines 211-261: the streak of a calendar response at time now.
StreakOfCalendar(weeks, now) ==
    LET days          == contributionDays(weeks)
        todayTime     == UTCMidnight(now)
        yesterdayTime == PrevUTCDate(todayTime)
        firstTime     == UTCMidnight(days[1])
    IN  IF Len(days) = 0 THEN 0
        ELSE IF firstTime # todayTime /\ firstTime # yesterdayTime THEN 0
        ELSE CountBackward(days, 2, Len(days),
                           [streak |-> 1, expectedDate |-> PrevUTCDate(firstTime),
                            broken |-> FALSE]).streak

\* ------------------------------------------------- calculateStreak (pure part)
\* Array.from(new Set(events.filter(created_at).map(ISO date))).sort().reverse()
contributionDates(allEvents) ==
    LET evs == SelectSeq(allEvents, LAMBDA e : "created_at" \in DOMAIN e)
    IN  SortedDesc({ISODate(evs[i].created_at) : i \in 1..Len(evs)})

\* Mutant: only diffDays === 0 continues the streak.
EventDayStep_SameDayOnly(date, w) ==
    LET diff == w.checkDate - ParseDate(date)
    IN  IF diff = 0
        THEN [w EXCEPT !.streak = w.streak + 1, !.checkDate = PrevUTCDate(w.checkDate)]
        ELSE [w EXCEPT !.broken = TRUE]

\* The body of for (const date of contributionDates): lines 308-316.
\* w = [streak, checkDate, broken]; diffDays is 0 or 1.
EventDayStep(date, w) ==
    LET diff == w.checkDate - ParseDate(date)
    IN  IF diff = 0 \/ diff = HoursPerDay
        THEN [w EXCEPT !.streak = w.streak + 1, !.checkDate = PrevUTCDate(w.checkDate)]
        ELSE [w EXCEPT !.broken = TRUE]

\* The loop over dates[lo..hi], stopping at the break.
RECURSIVE CountEventDays(_, _, _, _)
CountEventDays(dates, lo, hi, w) ==
    IF w.broken \/ lo > hi THEN w
    ELSE IF lo = hi THEN EventDayStep(dates[lo], w)
    ELSE LET mid == (lo + hi) \div 2
         IN  CountEventDays(dates, mid + 1, hi, CountEventDays(dates, lo, mid, w))

\* Lines 287-319: the streak of the collected events at time now.
StreakOfEvents(allEvents, now) ==
    LET dates == contributionDates(allEvents)
    IN  IF Len(allEvents) = 0 THEN 0
        ELSE IF Len(dates) = 0 THEN 0
        ELSE CountEventDays(dates, 1, Len(dates),
                            [streak |-> 0, checkDate |-> ParseDate(ISODate(now)),
                             broken |-> FALSE]).streak

\* ------------------------------- calculateStreak, earlier revision (part_001)
\* Mutant: a day without an event breaks the walk, today included.
FromTodayStep_BreaksToday(dates, i, now, w) ==
    IF ISODate(now - i * HoursPerDay) \in dates
    THEN [w EXCEPT !.streak = w.streak + 1]
    ELSE [w EXCEPT !.broken = TRUE]

\* The body of for (let i = 0; i < 365; i++): part_001 lines 304-312.
FromTodayStep(dates, i, now, w) ==
    IF ISODate(now - i * HoursPerDay) \in dates
    THEN [w EXCEPT !.streak = w.streak + 1]
    ELSE IF i > 0 THEN [w EXCEPT !.broken = TRUE]
    ELSE w

\* The loop for i in lo..hi, stopping at the break.
RECURSIVE CountFromToday(_, _, _, _, _)
CountFromToday(dates, lo, hi, now, w) ==
    IF w.broken \/ lo > hi THEN w
    ELSE IF lo = hi THEN FromTodayStep(dates, lo, now, w)
    ELSE LET mid == (lo + hi) \div 2
         IN  CountFromToday(dates, mid + 1, hi, now, CountFromToday(dates, lo, mid, now, w))

\* part_001 lines 294-315: return streak || 47.
StreakOfEventsV1(events, now) ==
    LET dates  == {ISODate(events[i].created_at) : i \in 1..Len(events)}
        streak == CountFromToday(dates, 0, 365 - 1, now,
                                 [streak |-> 0, broken |-> FALSE]).streak
    IN  IF streak = 0 THEN StreakFallbackV1 ELSE streak

\* ------------------------------------------------ the streak calculator's steps
\* calculateStreakGraphQL() is called: the calendar query is issued.
CallStreak == [IdleStreak EXCEPT !.pc = "calendar"]

\* The earlier revision calls calculateStreak() directly: one events request.
CallStreakV1 == [IdleStreak EXCEPT !.pc = "eventsV1", !.rev = "earlier", !.requested = <<1>>]

\* Mutant: the window starts two years before now.
WindowFrom_TwoYears(c) == c.now - 2 * c.yearDays * HoursPerDay

\* from.setFullYear(from.getFullYear() - 1)
WindowFrom(c) == c.now - c.yearDays * HoursPerDay

\* Mutant: a calendar without a current streak is treated like a failed query.
CalendarResult_FallsBackOnZero(s, weeks, now) ==
    IF StreakOfCalendar(weeks, now) = 0
    THEN [s EXCEPT !.pc = "events", !.calendar = "ok", !.page = 1, !.allEvents = <<>>,
                   !.requested = <<1>>]
    ELSE [s EXCEPT !.pc = "returned", !.calendar = "ok",
                   !.result = StreakOfCalendar(weeks, now)]

\* The calendar query succeeds: lines 211-261 run to the return.
CalendarResult(s, weeks, now) ==
    [s EXCEPT !.pc = "returned", !.calendar = "ok", !.result = StreakOfCalendar(weeks, now)]

\* The query rejects: catch, return this.calculateStreak(); page 1 is requested.
CalendarCatch(s) ==
    [s EXCEPT !.pc = "events", !.calendar = "failed", !.page = 1, !.allEvents = <<>>,
              !.requested = <<1>>]

\* Mutant: while (true), pages are requested until one is empty.
EventsStep_NoPageCap(s, events, now) ==
    IF Len(events) = 0
    THEN [s EXCEPT !.pc = "returned", !.feed = "ok",
                   !.result = StreakOfEvents(s.allEvents, now)]
    ELSE [s EXCEPT !.allEvents = s.allEvents \o events, !.page = s.page + 1,
                   !.requested = Append(s.requested, s.page + 1)]

\* One iteration of while (page <= 3), from the page's arrival to the next await
\* or to the return.
EventsStep(s, events, now) ==
    IF Len(events) = 0
    THEN [s EXCEPT !.pc = "returned", !.feed = "ok",
                   !.result = StreakOfEvents(s.allEvents, now)]
    ELSE LET all  == s.allEvents \o events
             page == s.page + 1
         IN  IF page <= MaxEventPages
             THEN [s EXCEPT !.allEvents = all, !.page = page,
                            !.requested = Append(s.requested, page)]
             ELSE [s EXCEPT !.allEvents = all, !.page = page, !.pc = "returned",
                            !.feed = "ok", !.result = StreakOfEvents(all, now)]

\* Mutant: the catch returns the earlier revision's literal.
EventsCatch_OldLiteral(s) ==
    [s EXCEPT !.pc = "returned", !.feed = "failed", !.result = StreakFallbackV1]

\* An events request rejects: catch, return 0.
EventsCatch(s) == [s EXCEPT !.pc = "returned", !.feed = "failed", !.result = StreakFallback]

\* Earlier revision: the events request rejects: catch, return 47.
EventsCatchV1(s) ==
    [s EXCEPT !.pc = "returned", !.feed = "failed", !.result = StreakFallbackV1]

\* ------------------------------------------------------- the record and files
Username == "Dineshs737"
Null == "<null>"

\* a || b and a ?? b on a text field.
OrElse(a, b) == IF a = Null \/ a = "" THEN b ELSE a
Coalesce(a, b) == IF a = Null THEN b ELSE a

NoStats ==
    [name |-> Null, username |-> Null, location |-> Null, bio |-> Null, company |-> Null,
     blog |-> Null, repositories |-> 0, followers |-> 0, following |-> 0, commits |-> 0,
     pullRequests |-> 0, issues |-> 0, stars |-> 0, streak |-> 0, linesOfCode |-> 0]

\* A promise of the batch: st is "idle", "pending", "ok" or "rejected", v the
\* value it resolved to, reported the count the remote answered (-1: none).
IdleSlot == [st |-> "idle", v |-> 0, reported |-> -1]
PendingSlot == [st |-> "pending", v |-> 0, reported |-> -1]
Fulfilled(v) == [st |-> "ok", v |-> v, reported |-> -1]
Rejected == [st |-> "rejected", v |-> 0, reported |-> -1]

Slots == {"pullRequests", "issues", "stars", "streak", "linesOfCode"}
IdleBatch == [n \in Slots |-> IdleSlot]
PendingBatch == [n \in Slots |-> PendingSlot]

\* Mutant: the destructuring of line 395 names issues before pullRequests, so
\* that the two searches end up in each other's field.
BuildStats_SwapsSearches(userData, repos, commits, b) ==
    [name         |-> OrElse(userData.name, Username),
     username     |-> Username,
     location     |-> Coalesce(userData.location, "Srilanka, Mannar"),
     bio          |-> Coalesce(userData.bio, "Undergraduate Student"),
     company      |-> Coalesce(userData.company, "@Learning"),
     blog         |-> Coalesce(userData.blog, "github.com/Dineshs737"),
     repositories |-> Len(repos),
     followers    |-> userData.followers,
     following    |-> userData.following,
     commits      |-> commits,
     pullRequests |-> b["issues"].v,
     issues       |-> b["pullRequests"].v,
     stars        |-> b["stars"].v,
     streak       |-> b["streak"].v,
     linesOfCode  |-> b["linesOfCode"].v]

\* Lines 404-420: the record collectStats returns.
BuildStats(userData, repos, commits, b) ==
    [name         |-> OrElse(userData.name, Username),
     username     |-> Username,
     location     |-> Coalesce(userData.location, "Srilanka, Mannar"),
     bio          |-> Coalesce(userData.bio, "Undergraduate Student"),
     company      |-> Coalesce(userData.company, "@Learning"),
     blog         |-> Coalesce(userData.blog, "github.com/Dineshs737"),
     repositories |-> Len(repos),
     followers    |-> userData.followers,
     following    |-> userData.following,
     commits      |-> commits,
     pullRequests |-> b["pullRequests"].v,
     issues       |-> b["issues"].v,
     stars        |-> b["stars"].v,
     streak       |-> b["streak"].v,
     linesOfCode  |-> b["linesOfCode"].v]

\* generate(): the files in the order they are written, and what each holds.
FileNames ==
    <<"profile.svg", "profile-dark.svg", "profile-light.svg",
      "profile-full-dark.svg", "profile-full-light.svg", "README.md">>

\* Mutant: the two full designs are rendered from an empty record.
Render_FullFromDefaults(file, stats) ==
    CASE file = "profile.svg"            -> [layout |-> "classic", dark |-> TRUE, stats |-> stats]
      [] file = "profile-dark.svg"       -> [layout |-> "classic", dark |-> TRUE, stats |-> stats]
      [] file = "profile-light.svg"      -> [layout |-> "classic", dark |-> FALSE, stats |-> stats]
      [] file = "profile-full-dark.svg"  -> [layout |-> "full", dark |-> TRUE, stats |-> NoStats]
      [] file = "profile-full-light.svg" -> [layout |-> "full", dark |-> FALSE, stats |-> NoStats]
      [] OTHER                           -> [layout |-> "readme", dark |-> FALSE, stats |-> NoStats]

Render(file, stats) ==
    CASE file = "profile.svg"            -> [layout |-> "classic", dark |-> TRUE, stats |-> stats]
      [] file = "profile-dark.svg"       -> [layout |-> "classic", dark |-> TRUE, stats |-> stats]
      [] file = "profile-light.svg"      -> [layout |-> "classic", dark |-> FALSE, stats |-> stats]
      [] file = "profile-full-dark.svg"  -> [layout |-> "full", dark |-> TRUE, stats |-> stats]
      [] file = "profile-full-light.svg" -> [layout |-> "full", dark |-> FALSE, stats |-> stats]
      [] OTHER                           -> [layout |-> "readme", dark |-> FALSE, stats |-> NoStats]

\* The first k writeFileSync calls of generate() succeed.
Written(k, stats) ==
    [i \in 1..k |-> [name |-> FileNames[i], content |-> Render(FileNames[i], stats)]]

NoOutput == [built |-> FALSE, stats |-> NoStats, files |-> <<>>]

\* --------------------------------------------- Promise.all and what follows it
\* A promise of the batch settles with slot.  While collectStats awaits
\* Promise.all (pc = "batch"): a rejection rejects the join, collectStats and
\* generate() (catch, log, rethrow), and main().catch(console.error) logs it;
\* the last fulfilment resolves the join, the record is built, the four
\* documents are rendered and the files are written one after the other, a
\* failing write throwing out of generate().  A promise that settles after the
\* join was rejected changes nothing else.
Settle_Race(name, slot) ==
    LET b == [batch EXCEPT ![name] = slot]
    IN  IF pc = "off" THEN UNCHANGED <<batch, pc, out>>
        ELSE IF pc # "batch" THEN batch' = b /\ UNCHANGED <<pc, out>>
        ELSE IF slot.st = "rejected" THEN batch' = b /\ pc' = "caught" /\ UNCHANGED out
        ELSE /\ batch' = b
             /\ \E k \in 0..Len(FileNames) :
                   LET stats == BuildStats(run.userData, run.repos, run.commits, b)
                   IN  /\ out' = [built |-> TRUE, stats |-> stats, files |-> Written(k, stats)]
                       /\ pc' = IF k = Len(FileNames) THEN "finished" ELSE "caught"

Settle(name, slot) ==
    LET b == [batch EXCEPT ![name] = slot]
    IN  IF pc = "off" THEN UNCHANGED <<batch, pc, out>>
        ELSE IF pc # "batch" THEN batch' = b /\ UNCHANGED <<pc, out>>
        ELSE IF slot.st = "rejected" THEN batch' = b /\ pc' = "caught" /\ UNCHANGED out
        ELSE IF \A n \in Slots : b[n].st = "ok"
        THEN /\ batch' = b
             /\ \E k \in 0..Len(FileNames) :
                   LET stats == BuildStats(run.userData, run.repos, run.commits, b)
                   IN  /\ out' = [built |-> TRUE, stats |-> stats, files |-> Written(k, stats)]
                       /\ pc' = IF k = Len(FileNames) THEN "finished" ELSE "caught"
        ELSE batch' = b /\ UNCHANGED <<pc, out>>

\* ------------------------------------------------------------ the commit count
\* ql and reply tell how the commit query ended and what it answered; repos,
\* i, totalCommits and processedRepos are fetchCommitCountFromRepos' locals;
\* log lists, per repository met by the loop, what the console reports of it
\* ("fork", "counted" with its count, "skipped" for 404 / 409, "error" for any
\* other failure); result is the value returned (-1: none yet).
NoReply == [totalCommitContributions |-> -1, restrictedContributionsCount |-> -1]

\* linkHeader is the iteration's const of line 80, set while the delay runs.
IdleCommits == [pc |-> "idle", ql |-> "none", reply |-> NoReply, repos |-> <<>>, i |-> 0,
                totalCommits |-> 0, processedRepos |-> 0, log |-> <<>>, result |-> -1,
                linkHeader |-> <<>>]

\* The answers of the commit query.
CommitTotals ==
    { [totalCommitContributions |-> 5, restrictedContributionsCount |-> 2] }

\* Mutant: the restricted contributions are left out.
CommitsOfQuery_PublicOnly(reply) == reply.totalCommitContributions

\* Lines 143-145: totalCommitContributions + restrictedContributionsCount.
CommitsOfQuery(reply) ==
    reply.totalCommitContributions + reply.restrictedContributionsCount

\* The Link headers a commit listing may carry (none: <<>>).
LinkHeaders ==
    { <<>>,
      <<[page |-> 2, rel |-> "next"], [page |-> 3, rel |-> "last"]>>,
      <<[page |-> 1, rel |-> "prev"], [page |-> 1, rel |-> "first"]>> }

Statuses == {404, 409, 500}

\* Mutant: let repoCommitCount = 0.
RepoCommitCount_DefaultsToZero(linkHeader) ==
    LET last == {k \in 1..Len(linkHeader) : linkHeader[k].rel = "last"}
    IN  IF linkHeader = <<>> \/ last = {} THEN 0
        ELSE linkHeader[CHOOSE k \in last : \A l \in last : k <= l].page

\* Lines 80-88: linkHeader.match(/page=(\d+)>; rel="last"/).
RepoCommitCount(linkHeader) ==
    LET last == {k \in 1..Len(linkHeader) : linkHeader[k].rel = "last"}
    IN  IF linkHeader = <<>> \/ last = {} THEN 1 ELSE linkHeader[SetMin(last)].page

\* The first index from i on whose repository is not a fork (Len + 1: none).
NextNonFork(repos, i) ==
    LET S == {j \in i..Len(repos) : ~repos[j].fork}
    IN  IF S = {} THEN Len(repos) + 1 ELSE SetMin(S)

\* fetchCommitCountGraphQL() returns v: collectStats goes on to lines 395-402,
\* where the five aggregators are started, each up to its first await.
\* Mutant: fetchTotalStars sums the list collectStats already holds.
ReturnCommits_StarsReuseList(f, c, v) ==
    /\ cm' = [c EXCEPT !.pc = "done", !.result = v]
    /\ IF pc = "off"
       THEN fetch' = f /\ UNCHANGED <<env, pc, run, batch, out, sk>>
       ELSE /\ run' = [run EXCEPT !.commits = v]
            /\ pc' = "batch"
            /\ batch' = [PendingBatch EXCEPT !["stars"] =
                            Fulfilled(SumSeq([k \in 1..Len(run.repos) |->
                                                 run.repos[k].stargazers_count]))]
            /\ fetch' = [f EXCEPT !["loc"] = CallFrame]
            /\ sk' = CallStreak
            /\ UNCHANGED <<env, out>>

ReturnCommits(f, c, v) ==
    /\ cm' = [c EXCEPT !.pc = "done", !.result = v]
    /\ IF pc = "off"
       THEN fetch' = f /\ UNCHANGED <<env, pc, run, batch, out, sk>>
       ELSE /\ run' = [run EXCEPT !.commits = v]
            /\ pc' = "batch"
            /\ batch' = PendingBatch
            /\ fetch' = [f EXCEPT !["stars"] = CallFrame, !["loc"] = CallFrame]
            /\ sk' = CallStreak
            /\ UNCHANGED <<env, out>>

\* What the loop logs of a repository.
LogEntry(repo, outcome, count) == [repo |-> repo.name, outcome |-> outcome, count |-> count]

\* for (const repo of repos) from index i on: forks are skipped at once; the
\* first other repository gets its listCommits request; the end of the list
\* returns totalCommits.
AdvanceLoop(f, c, i) ==
    LET j     == NextNonFork(c.repos, i)
        forks == [k \in 1..(j - i) |-> LogEntry(c.repos[i + k - 1], "fork", 0)]
        c1    == [c EXCEPT !.log = c.log \o forks, !.linkHeader = <<>>]
    IN  IF j <= Len(c.repos)
        THEN /\ cm' = [c1 EXCEPT !.pc = "listCommits", !.i = j]
             /\ fetch' = f
             /\ UNCHANGED <<env, pc, run, batch, out, sk>>
        ELSE ReturnCommits(f, c1, c1.totalCommits)

\* Mutant: the inner catch rethrows what is neither a 404 nor a 409, and the
\* outer catch answers with the literal.
SkipRepo_RethrowsOthers(f, c, status) ==
    IF status = 409 \/ status = 404
    THEN AdvanceLoop(f, [c EXCEPT !.log = Append(c.log, LogEntry(c.repos[c.i], "skipped", 0))],
                     c.i + 1)
    ELSE ReturnCommits(f, c, CommitFallback)

\* Mutant: the inner catch gives up on the first failing repository.
SkipRepo_Aborts(f, c, status) == ReturnCommits(f, c, CommitFallback)

\* Lines 99-106: a request for repository c.i rejects with status; 404 and 409
\* continue, any other status is logged, and the loop goes on either way.
SkipRepo(f, c, status) ==
    LET outcome == IF status = 409 \/ status = 404 THEN "skipped" ELSE "error"
    IN  AdvanceLoop(f, [c EXCEPT !.log = Append(c.log, LogEntry(c.repos[c.i], outcome, 0))],
                    c.i + 1)

\* Mutant: the outer catch returns what was counted so far.
CommitsCatch_ReturnsTotal(f, c) == ReturnCommits(f, c, c.totalCommits)

\* Lines 113-116: fetchCommitCountFromRepos' outer catch: return 1247.
CommitsCatch(f, c) == ReturnCommits(f, c, CommitFallback)

\* ------------------------------------------------ stars and lines of code
\* The star counts of a list of repositories.
Stars(repos) == [k \in 1..Len(repos) |-> repos[k].stargazers_count]

\* Mutant: forks are left out of the sum, as they are of the commit count.
TotalStars_SkipsForks(repos) ==
    SumSeq([k \in 1..Len(repos) |-> IF repos[k].fork THEN 0 ELSE repos[k].stargazers_count])

\* Line 179: repos.reduce((acc, repo) => acc + repo.stargazers_count, 0).
TotalStars(repos) == SumSeq(Stars(repos))

\* The values Math.floor(Math.random() * 5000) is drawn from here: both ends
\* of its range.
Jitters == {0, JitterRange - 1}

\* Mutant: the jitter is rounded up instead of down.
EstimateLines_RoundsUp(repos, jitter) == Len(repos) * LinesPerRepo + jitter + 1

\* Line 329: repos.length * 500 + Math.floor(Math.random() * 5000).
EstimateLines(repos, jitter) == Len(repos) * LinesPerRepo + jitter

\* ------------------------------------------- fetchRepositories' continuations
\* fetchRepositories returns repos to its caller c.
FetchReturned(c, f, repos) ==
    CASE c = "collect" ->
            IF pc = "repos"
            THEN /\ run' = [run EXCEPT !.repos = repos]
                 /\ pc' = "commits"
                 /\ cm' = [IdleCommits EXCEPT !.pc = "graphql"]
                 /\ fetch' = f
                 /\ UNCHANGED <<env, batch, out, sk>>
            ELSE fetch' = f /\ UNCHANGED <<runVars, sk>>
      [] c = "commits" -> AdvanceLoop(f, [cm EXCEPT !.repos = repos], 1)
      [] c = "stars" ->
            /\ fetch' = f
            /\ Settle("stars", Fulfilled(TotalStars(repos)))
            /\ UNCHANGED <<env, run, cm, sk>>
      [] c = "loc" ->
            /\ fetch' = f
            /\ \E jitter \in Jitters :
                  Settle("linesOfCode", Fulfilled(EstimateLines(repos, jitter)))
            /\ UNCHANGED <<env, run, cm, sk>>

\* Mutant: fetchRepositories catches the failure and returns what it has.
FetchThrown_ReturnsPartial(c, f) == FetchReturned(c, f, f[c].allRepos)

\* fetchRepositories throws to its caller c.
FetchThrown(c, f) ==
    CASE c = "collect" ->
            IF pc = "repos"
            THEN fetch' = f /\ pc' = "caught" /\ UNCHANGED <<env, run, cm, batch, out, sk>>
            ELSE fetch' = f /\ UNCHANGED <<runVars, sk>>
      [] c = "commits" -> CommitsCatch(f, cm)
      [] c = "stars" ->
            fetch' = f /\ Settle("stars", Rejected) /\ UNCHANGED <<env, run, cm, sk>>
      [] c = "loc" ->
            fetch' = f /\ Settle("linesOfCode", Rejected) /\ UNCHANGED <<env, run, cm, sk>>

\* The streak calculator's activation becomes s.
StreakStep(s) ==
    /\ sk' = s
    /\ IF s.pc = "returned"
       THEN Settle("streak", Fulfilled(s.result)) /\ UNCHANGED <<env, run, cm>>
       ELSE UNCHANGED runVars
    /\ UNCHANGED <<fetchVars, clock, activity>>

\* ===================================================================== actions
\* ---- fetchRepositories
FetchPageOk(c) ==
    /\ fetch[c].pc = "await"
    /\ LET f == FetchStepOk(fetch[c], listForUser(remote, fetch[c].page))
       IN  IF f.pc = "done"
           THEN FetchReturned(c, [fetch EXCEPT ![c] = f], f.allRepos)
           ELSE fetch' = [fetch EXCEPT ![c] = f] /\ UNCHANGED <<runVars, sk>>
    /\ UNCHANGED <<remote, changes, clock, activity>>

\* The page request rejects: the await throws out of fetchRepositories.
FetchPageFail(c) ==
    /\ fetch[c].pc = "await"
    /\ FetchThrown(c, [fetch EXCEPT ![c].pc = "failed"])
    /\ UNCHANGED <<remote, changes, clock, activity>>

\* ---- the streak calculator
CalendarOk ==
    /\ sk.pc = "calendar"
    /\ StreakStep(CalendarResult(sk, CalendarWeeks(activity, WindowFrom(clock), clock.now),
                                 clock.now))

\* The query answers without a calendar (result?.user?...weeks is missing).
CalendarNoWeeks ==
    /\ sk.pc = "calendar"
    /\ StreakStep([sk EXCEPT !.pc = "returned", !.calendar = "noweeks", !.result = 0])

CalendarFail ==
    /\ sk.pc = "calendar"
    /\ StreakStep(CalendarCatch(sk))

EventsPageOk ==
    /\ sk.pc = "events"
    /\ StreakStep(EventsStep(sk, listPublicEventsForUser(activity, sk.page), clock.now))

EventsPageFail ==
    /\ sk.pc = "events"
    /\ StreakStep(EventsCatch(sk))

\* Earlier revision: the single events page arrives.
EventsV1Ok ==
    /\ sk.pc = "eventsV1"
    /\ StreakStep([sk EXCEPT !.pc = "returned", !.feed = "ok",
                             !.result = StreakOfEventsV1(listPublicEventsForUser(activity, 1),
                                                         clock.now)])

EventsV1Fail ==
    /\ sk.pc = "eventsV1"
    /\ StreakStep(EventsCatchV1(sk))

\* ---- main, generate and collectStats up to the commit count
NoRun == [userData |-> [name |-> Null, location |-> Null, bio |-> Null, company |-> Null,
                        blog |-> Null, followers |-> 0, following |-> 0],
          repos |-> <<>>, commits |-> 0]

\* Mutant: main() without its check of the credential.
MainStart_NoCheck ==
    /\ pc = "start"
    /\ pc' = "userData"
    /\ UNCHANGED <<fetchVars, streakVars, env, run, cm, batch, out>>

\* main(): without the credential process.exit(1); else generate() is called,
\* collectStats starts and the user lookup is issued.
MainStart ==
    /\ pc = "start"
    /\ pc' = IF env.token THEN "userData" ELSE "exit1"
    /\ UNCHANGED <<fetchVars, streakVars, env, run, cm, batch, out>>

\* The user lookup answers: fetchRepositories is called (page 1 requested).
UserDataOk ==
    /\ pc = "userData"
    /\ run' = [run EXCEPT !.userData = env.profile]
    /\ pc' = "repos"
    /\ fetch' = [fetch EXCEPT !["collect"] = CallFrame]
    /\ UNCHANGED <<remote, changes, streakVars, env, cm, batch, out>>

\* The user lookup rejects: collectStats rejects, generate() logs and rethrows,
\* main().catch(console.error) logs.
UserDataFail ==
    /\ pc = "userData"
    /\ pc' = "caught"
    /\ UNCHANGED <<fetchVars, streakVars, env, run, cm, batch, out>>

\* ---- the commit count
CommitsQLOk ==
    /\ cm.pc = "graphql"
    /\ \E reply \in CommitTotals :
          ReturnCommits(fetch, [cm EXCEPT !.ql = "ok", !.reply = reply], CommitsOfQuery(reply))
    /\ UNCHANGED <<remote, changes, clock, activity>>

\* The commit query rejects: catch, return this.fetchCommitCountFromRepos().
CommitsQLFail ==
    /\ cm.pc = "graphql"
    /\ cm' = [cm EXCEPT !.ql = "failed", !.pc = "fetch"]
    /\ fetch' = [fetch EXCEPT !["commits"] = CallFrame]
    /\ UNCHANGED <<remote, changes, streakVars, env, pc, run, batch, out>>

ListCommitsOk ==
    /\ cm.pc = "listCommits"
    /\ cm' = [cm EXCEPT !.pc = "request"]
    /\ UNCHANGED <<fetchVars, streakVars, env, pc, run, batch, out>>

\* listCommits rejects: the inner catch; 404 and 409 continue, any other status
\* is logged, and the loop goes on with the next repository either way.
ListCommitsFail ==
    /\ cm.pc = "listCommits"
    /\ \E status \in Statuses : SkipRepo(fetch, cm, status)
    /\ UNCHANGED <<remote, changes, clock, activity>>

\* The second request answers: the Link header is parsed, the totals grow and
\* the 100 ms delay starts.
RequestOk ==
    /\ cm.pc = "request"
    /\ \E linkHeader \in LinkHeaders :
          cm' = [cm EXCEPT !.pc = "delay",
                           !.linkHeader = linkHeader,
                           !.totalCommits = cm.totalCommits + RepoCommitCount(linkHeader),
                           !.processedRepos = cm.processedRepos + 1,
                           !.log = Append(cm.log, LogEntry(cm.repos[cm.i], "counted",
                                                           RepoCommitCount(linkHeader)))]
    /\ UNCHANGED <<fetchVars, streakVars, env, pc, run, batch, out>>

RequestFail ==
    /\ cm.pc = "request"
    /\ \E status \in Statuses : SkipRepo(fetch, cm, status)
    /\ UNCHANGED <<remote, changes, clock, activity>>

DelayDone ==
    /\ cm.pc = "delay"
    /\ AdvanceLoop(fetch, cm, cm.i + 1)
    /\ UNCHANGED <<remote, changes, clock, activity>>

\* ---- the two searches
\* The total_count values a search may report.
SearchTotals == {7}

\* return data.total_count
SearchResult(total_count) == [st |-> "ok", v |-> total_count, reported |-> total_count]

\* Mutant: fetchPullRequestCount without its try/catch.
PullRequestCatch_Rethrows == Rejected

\* fetchPullRequestCount's catch: return 89.
PullRequestCatch == Fulfilled(PullRequestFallback)

\* fetchIssueCount's catch: return 156.
IssueCatch == Fulfilled(IssueFallback)

PullRequestsOk ==
    /\ batch["pullRequests"].st = "pending"
    /\ \E t \in SearchTotals : Settle("pullRequests", SearchResult(t))
    /\ UNCHANGED <<fetchVars, streakVars, env, run, cm>>

PullRequestsFail ==
    /\ batch["pullRequests"].st = "pending"
    /\ Settle("pullRequests", PullRequestCatch)
    /\ UNCHANGED <<fetchVars, streakVars, env, run, cm>>

IssuesOk ==
    /\ batch["issues"].st = "pending"
    /\ \E t \in SearchTotals : Settle("issues", SearchResult(t))
    /\ UNCHANGED <<fetchVars, streakVars, env, run, cm>>

IssuesFail ==
    /\ batch["issues"].st = "pending"
    /\ Settle("issues", IssueCatch)
    /\ UNCHANGED <<fetchVars, streakVars, env, run, cm>>

\* ---- the process
\* No request, timer or promise of the run is outstanding.
Quiescent ==
    /\ \A c \in Callers : fetch[c].pc # "await"
    /\ sk.pc \notin {"calendar", "events", "eventsV1"}
    /\ cm.pc \notin {"graphql", "listCommits", "request", "delay"}
    /\ \A n \in Slots : batch[n].st # "pending"
    /\ pc \notin {"start", "userData"}

\* The status the process ends with (-1: still running): 1 from
\* process.exit(1); otherwise main's promise was fulfilled, or rejected and
\* handled by .catch(console.error), and the process ends with 0 once nothing
\* is outstanding.
ExitStatus ==
    IF pc = "exit1" THEN 1
    ELSE IF pc \in {"finished", "caught"} /\ Quiescent THEN 0
    ELSE -1

\* ===================================================================== Spec
\* One run of the program, from main() to the end of the process.
Profiles ==
    [none  |-> [name |-> Null, location |-> Null, bio |-> Null, company |-> Null,
                blog |-> Null, followers |-> 0, following |-> 0],
     empty |-> [name |-> "", location |-> "", bio |-> "", company |-> "", blog |-> "",
                followers |-> 3, following |-> 1],
     full  |-> [name |-> "Dinesh", location |-> "Mannar", bio |-> "Student",
                company |-> "Acme", blog |-> "dinesh.dev", followers |-> 12, following |-> 5]]

\* The subjects a run is made on: a profile, an activity and the length of the
\* year before now.
Subjects ==
    <<[profile |-> Profiles.none, yearDays |-> 365,
       activity |-> [recent |-> {}, tail |-> FALSE, perDay |-> 1]],
      [profile |-> Profiles.empty, yearDays |-> 365,
       activity |-> [recent |-> {0, 1}, tail |-> FALSE, perDay |-> 1]],
      [profile |-> Profiles.full, yearDays |-> 366,
       activity |-> [recent |-> {0, 2}, tail |-> FALSE, perDay |-> MaxPerDay]]>>

\* The runs explored: a subject for each size of the remote listing.
Init ==
    /\ remote \in [n : 0..MaxRunRepos, ver : {0}]
    /\ changes = 0
    /\ fetch = [c \in Callers |-> IdleFrame]
    /\ LET s == Subjects[(remote.n % Len(Subjects)) + 1]
       IN  /\ activity = s.activity
           /\ clock = [now |-> Today * HoursPerDay + 13, yearDays |-> s.yearDays]
           /\ env \in [token : BOOLEAN, profile : {s.profile}]
    /\ sk = IdleStreak
    /\ pc = "start"
    /\ run = NoRun
    /\ cm = IdleCommits
    /\ batch = IdleBatch
    /\ out = NoOutput

Next ==
    \/ MainStart
    \/ UserDataOk
    \/ UserDataFail
    \/ \E c \in Callers : FetchPageOk(c)
    \/ \E c \in Callers : FetchPageFail(c)
    \/ RemoteChange
    \/ CommitsQLOk
    \/ CommitsQLFail
    \/ ListCommitsOk
    \/ ListCommitsFail
    \/ RequestOk
    \/ RequestFail
    \/ DelayDone
    \/ PullRequestsOk
    \/ PullRequestsFail
    \/ IssuesOk
    \/ IssuesFail
    \/ CalendarOk
    \/ CalendarNoWeeks
    \/ CalendarFail
    \/ EventsPageOk
    \/ EventsPageFail

Spec == Init /\ [][Next]_vars

\* ---------------------------------------------------------------- SpecFetch
\* collectStats up to the end of its own repository collection (lines
\* 385-386), against a remote of any size.
InitFetch ==
    /\ remote \in [n : 0..MaxRepos, ver : 0..MaxVer]
    /\ changes = 0
    /\ fetch = [c \in Callers |-> IdleFrame]
    /\ clock = [now |-> Today * HoursPerDay, yearDays |-> 365]
    /\ activity = [recent |-> {}, tail |-> FALSE, perDay |-> 1]
    /\ sk = IdleStreak
    /\ env = [token |-> TRUE, profile |-> NoRun.userData]
    /\ pc = "userData"
    /\ run = NoRun
    /\ cm = IdleCommits
    /\ batch = IdleBatch
    /\ out = NoOutput

NextFetch ==
    \/ UserDataOk
    \/ UserDataFail
    \/ FetchPageOk("collect")
    \/ FetchPageFail("collect")
    \/ RemoteChange

SpecFetch == InitFetch /\ [][NextFetch]_vars

\* ---------------------------------------------------------------- SpecBatch
\* collectStats from line 395 on: the user lookup, the repository collection
\* and the commit query have answered, the five aggregators have just been
\* started.
InitBatch ==
    /\ remote \in [n : 0..MaxBatchRepos, ver : {0}]
    /\ changes = 0
    /\ fetch = [c \in Callers |->
                   CASE c = "collect" -> [pc |-> "done", page |-> 2,
                                          allRepos |-> Listing(remote), requested |-> <<1>>]
                     [] c = "commits" -> IdleFrame
                     [] OTHER         -> CallFrame]
    /\ LET s == Subjects[(remote.n % Len(Subjects)) + 1]
       IN  /\ activity = s.activity
           /\ clock = [now |-> Today * HoursPerDay + 13, yearDays |-> s.yearDays]
           /\ env = [token |-> TRUE, profile |-> s.profile]
    /\ sk = CallStreak
    /\ pc = "batch"
    /\ \E reply \in CommitTotals :
          /\ cm = [IdleCommits EXCEPT !.pc = "done", !.ql = "ok", !.reply = reply,
                                      !.result = CommitsOfQuery(reply)]
          /\ run = [userData |-> env.profile, repos |-> Listing(remote),
                    commits |-> CommitsOfQuery(reply)]
    /\ batch = PendingBatch
    /\ out = NoOutput

NextBatch ==
    \/ \E c \in {"stars", "loc"} : FetchPageOk(c)
    \/ \E c \in {"stars", "loc"} : FetchPageFail(c)
    \/ RemoteChange
    \/ PullRequestsOk
    \/ PullRequestsFail
    \/ IssuesOk
    \/ IssuesFail
    \/ CalendarOk
    \/ CalendarNoWeeks
    \/ CalendarFail
    \/ EventsPageOk
    \/ EventsPageFail

SpecBatch == InitBatch /\ [][NextBatch]_vars

\* -------------------------------------------------------------- SpecCommits
\* fetchCommitCountGraphQL run on its own against a remote of a few
\* repositories.
InitCommits ==
    /\ remote \in [n : 0..MaxCommitRepos, ver : 0..MaxVer]
    /\ changes = 0
    /\ fetch = [c \in Callers |-> IdleFrame]
    /\ clock = [now |-> Today * HoursPerDay, yearDays |-> 365]
    /\ activity = [recent |-> {}, tail |-> FALSE, perDay |-> 1]
    /\ sk = IdleStreak
    /\ env = [token |-> TRUE, profile |-> NoRun.userData]
    /\ pc = "off"
    /\ run = NoRun
    /\ cm = [IdleCommits EXCEPT !.pc = "graphql"]
    /\ batch = IdleBatch
    /\ out = NoOutput

NextCommits ==
    \/ CommitsQLOk
    \/ CommitsQLFail
    \/ FetchPageOk("commits")
    \/ FetchPageFail("commits")
    \/ ListCommitsOk
    \/ ListCommitsFail
    \/ RequestOk
    \/ RequestFail
    \/ DelayDone

SpecCommits == InitCommits /\ [][NextCommits]_vars

\* --------------------------------------------------------------- SpecStreak
\* The streak calculator (both revisions) run on its own on any activity.
Clocks == [now : {Today * HoursPerDay + h : h \in {0, 13}}, yearDays : {365, 366}]

InitStreak ==
    /\ remote = [n |-> 0, ver |-> 0]
    /\ changes = 0
    /\ fetch = [c \in Callers |-> IdleFrame]
    /\ clock \in Clocks
    /\ activity \in Activities
    /\ sk \in {CallStreak, CallStreakV1}
    /\ env = [token |-> TRUE, profile |-> NoRun.userData]
    /\ pc = "off"
    /\ run = NoRun
    /\ cm = IdleCommits
    /\ batch = IdleBatch
    /\ out = NoOutput

NextStreak ==
    \/ CalendarOk
    \/ CalendarNoWeeks
    \/ CalendarFail
    \/ EventsPageOk
    \/ EventsPageFail
    \/ EventsV1Ok
    \/ EventsV1Fail

SpecStreak == InitStreak /\ [][NextStreak]_vars

\* ================================================================= claims
\* The contribution dates the calendar of the current window holds.
WindowDates ==
    {d \in ActiveDays(activity) : ISODate(WindowFrom(clock)) <= d /\ d <= ISODate(clock.now)}

\* The streak of a set D of dates as the specification words it: 0 without a
\* date today or yesterday, else the length of the run of days ending at max(D).
RefStreak(D, today) ==
    IF D = {} THEN 0
    ELSE LET m == SetMax(D)
         IN  IF m # today /\ m # today - 1 THEN 0
             ELSE CHOOSE k \in 1..Cardinality(D) :
                     /\ \A j \in 0..(k - 1) : (m - j) \in D
                     /\ (m - k) \notin D

\* C1: on a stable remote whose page requests all succeed, fetchRepositories
\* returns exactly the N repositories of the listing, each once, in the order
\* served, for every N (0 and the multiples of the page size included).
C1_FetchReturnsWholeListing ==
    (fetch["collect"].pc = "done" /\ changes = 0)
        => fetch["collect"].allRepos = Listing(remote)

C1_Witness ==
    /\ fetch["collect"].pc = "done"
    /\ changes = 0
    /\ remote.n = 2 * per_page
    /\ Len(fetch["collect"].allRepos) = 2 * per_page

\* C2: when the calendar query succeeds, the streak is 0 if no contribution
\* date of the window is today or yesterday, else the length of the run of
\* consecutive days ending at the most recent one; {today, today-1, today-2}
\* gives 3, {today-2} gives 0, {today-1, today-3} gives 1 and {} gives 0.
C2_CalendarStreak ==
    (sk.pc = "returned" /\ sk.calendar = "ok") =>
        /\ sk.result = RefStreak(WindowDates, ISODate(clock.now))
        /\ (~activity.tail /\ activity.recent = {0, 1, 2}) => sk.result = 3
        /\ (~activity.tail /\ activity.recent = {2}) => sk.result = 0
        /\ (~activity.tail /\ activity.recent = {1, 3}) => sk.result = 1
        /\ (~activity.tail /\ activity.recent = {}) => sk.result = 0

C2_Witness ==
    /\ sk.pc = "returned"
    /\ sk.calendar = "ok"
    /\ ~activity.tail
    /\ activity.recent = {1, 3}
    /\ sk.result = 1

\* The dates of the events the fallback collected.
CollectedDates == {ISODate(sk.allEvents[i].created_at) : i \in 1..Len(sk.allEvents)}

\* C3: the event-based fallback, run on a feed whose event dates are exactly D,
\* returns the streak the calendar-based algorithm returns on contribution
\* days D.
C3_FallbackEqualsPrimary ==
    (/\ sk.pc = "returned" /\ sk.rev = "current"
     /\ sk.calendar = "failed" /\ sk.feed = "ok"
     /\ CollectedDates = ActiveDays(activity)
     /\ WindowDates = ActiveDays(activity))
        => sk.result = StreakOfCalendar(CalendarWeeks(activity, WindowFrom(clock), clock.now),
                                        clock.now)

\* C9: in the current revision the events feed is requested only after the
\* calendar query failed; a calendar that answers, even one without any
\* contribution day (streak 0), never leads to an events request.
C9_EventsOnlyAfterCalendarFailure ==
    sk.rev = "current" =>
        /\ sk.requested # <<>> => sk.calendar = "failed"
        /\ sk.calendar \in {"ok", "noweeks"} => (sk.requested = <<>> /\ sk.pc = "returned")
        /\ (sk.calendar = "ok" /\ WindowDates = {}) => sk.result = 0

C9_Witness ==
    /\ sk.rev = "current"
    /\ sk.pc = "returned"
    /\ sk.calendar = "ok"
    /\ WindowDates = {}
    /\ sk.result = 0
    /\ sk.requested = <<>>

\* C10: when both strategies fail the streak is a literal and nothing is
\* thrown: 0 in the current revision (calendar query fails, then an events
\* request fails), 47 in the earlier revision (the events request fails).
C10_TotalFailureLiteral ==
    sk.feed = "failed" =>
        /\ sk.pc = "returned"
        /\ sk.rev = "current" => (sk.calendar = "failed" /\ sk.result = 0)
        /\ sk.rev = "earlier" => sk.result = 47

C10_Witness ==
    /\ sk.rev = "current"
    /\ sk.calendar = "failed"
    /\ sk.feed = "failed"
    /\ Len(sk.allEvents) > 0
    /\ sk.pc = "returned"
    /\ sk.result = 0

\* C4: once the user lookup and collectStats' own repository collection have
\* succeeded, no promise of the Promise.all batch rejects (every aggregator
\* catches the failures of its remote calls), so the join never rejects.
C4_JoinNeverRejects ==
    fetch["collect"].pc = "done" => \A n \in Slots : batch[n].st # "rejected"

\* The days of the calendar window, both end days included.
WindowDays == ISODate(clock.now) - ISODate(WindowFrom(clock)) + 1

\* C5 as stated: the streak a strategy returns (the record's streak field,
\* line 418) is an integer in [0, 365].
C5_StreakWithin365 ==
    sk.pc = "returned" => sk.result \in 0..365

\* C5 as amended: the streak a strategy returns is an integer in [0, 367]: the
\* calendar-based one is at most the number of days of its window, which holds
\* 366 days, both end days included (367 when the year before now has a
\* 29 February); the event-based one is at most the number of events read (3
\* pages of 100; one page of 100 in the earlier revision); the literals are 0
\* and 47.
C5_StreakWithinWindow ==
    sk.pc = "returned" =>
        /\ sk.result \in 0..367
        /\ sk.calendar = "ok" => sk.result <= WindowDays
        /\ sk.feed = "ok" => sk.result <= Max(MaxEventPages * per_page, StreakFallbackV1)

C5_Witness ==
    /\ sk.pc = "returned"
    /\ sk.calendar = "ok"
    /\ clock.yearDays = 366
    /\ sk.result = 367

\* C6: the process ends with status 0 only when the run succeeded: the record
\* was collected and every output file was written.
C6_ZeroOnlyOnSuccess ==
    ExitStatus = 0 => (out.built /\ Len(out.files) = Len(FileNames))

\* C7: in every record built, repositories is the size of the repository list
\* collectStats collected and stars is the sum of the star counts of that same
\* list, also when the remote listing changes between two requests of the run.
C7_CountsOfTheCollectedSet ==
    out.built =>
        /\ out.stats.repositories = Len(run.repos)
        /\ out.stats.stars = SumSeq(Stars(run.repos))

\* C8: a failing search never rejects its promise, so it never keeps
\* collectStats from completing (only the stars or the lines-of-code promise
\* can); in the record, pullRequests is 89 when the pull-request search failed
\* and the reported total_count when it answered, issues is 156 or the reported
\* total_count likewise, and every other field is what its own source yields,
\* whatever the searches did.
C8_SearchIsolation ==
    /\ batch["pullRequests"].st # "rejected"
    /\ batch["issues"].st # "rejected"
    /\ (pc = "caught" /\ fetch["collect"].pc = "done" /\ ~out.built)
          => (batch["stars"].st = "rejected" \/ batch["linesOfCode"].st = "rejected")
    /\ out.built =>
          /\ out.stats.pullRequests =
                IF batch["pullRequests"].reported = -1 THEN 89
                ELSE batch["pullRequests"].reported
          /\ out.stats.issues =
                IF batch["issues"].reported = -1 THEN 156 ELSE batch["issues"].reported
          /\ out.stats.commits = run.commits
          /\ out.stats.repositories = Len(run.repos)
          /\ out.stats.stars = SumSeq(Stars(fetch["stars"].allRepos))
          /\ out.stats.streak = sk.result
          /\ out.stats.linesOfCode - Len(fetch["loc"].allRepos) * LinesPerRepo
                \in 0..(JitterRange - 1)
          /\ out.stats.followers = env.profile.followers
          /\ out.stats.following = env.profile.following
          /\ out.stats.username = Username

C8_Witness ==
    /\ out.built
    /\ batch["pullRequests"].reported = -1
    /\ out.stats.pullRequests = 89
    /\ batch["issues"].reported = 7
    /\ out.stats.issues = 7
    /\ Len(out.files) = Len(FileNames)

\* C11: when the commit query answers, the commit count is
\* totalCommitContributions + restrictedContributionsCount of the answer and
\* the commit metric issues no repository listing and no per-repository
\* request; the repository-by-repository count runs only after the query failed.
C11_QueryAnswerIsTheCount ==
    /\ cm.ql = "ok" =>
          /\ cm.pc = "done"
          /\ cm.result = cm.reply.totalCommitContributions
                            + cm.reply.restrictedContributionsCount
          /\ fetch["commits"] = IdleFrame
          /\ cm.log = <<>> /\ cm.i = 0 /\ cm.processedRepos = 0
    /\ (fetch["commits"].pc # "idle" \/ cm.pc \in {"fetch", "listCommits", "request", "delay"})
          => cm.ql = "failed"

C11_Witness ==
    /\ cm.ql = "ok"
    /\ cm.reply.restrictedContributionsCount = 2
    /\ cm.result = 7
    /\ remote.n > 0

\* C12: when the commit query fails and the repository collection of the
\* repository-by-repository path throws, the commit count is the literal 1247
\* and fetchCommitCountGraphQL returns normally.
C12_BothPathsFail ==
    (cm.ql = "failed" /\ fetch["commits"].pc = "failed") =>
        (cm.pc = "done" /\ cm.result = 1247)

C12_Witness ==
    /\ cm.ql = "failed"
    /\ fetch["commits"].pc = "failed"
    /\ fetch["commits"].requested = <<1>>
    /\ cm.pc = "done"
    /\ cm.result = 1247

\* The counts the loop logged.
LoggedCounts(log) == [k \in 1..Len(log) |-> log[k].count]

\* C13: in the repository-by-repository count a 404 or 409 for one repository
\* makes it contribute 0 and does not stop the loop: when the loop returns,
\* every repository of the list has been met, in order, and the total is the
\* sum of the counts of the repositories that answered.
C13_SkipAndContinue ==
    (cm.pc = "done" /\ fetch["commits"].pc = "done") =>
        /\ Len(cm.log) = Len(cm.repos)
        /\ \A k \in 1..Len(cm.log) :
              /\ cm.log[k].repo = cm.repos[k].name
              /\ cm.log[k].outcome # "counted" => cm.log[k].count = 0
              /\ cm.log[k].outcome = "counted" => cm.log[k].count >= 1
        /\ cm.result = SumSeq(LoggedCounts(cm.log))
        /\ cm.processedRepos = Cardinality({k \in 1..Len(cm.log) : cm.log[k].outcome = "counted"})

C13_Witness ==
    /\ cm.pc = "done"
    /\ fetch["commits"].pc = "done"
    /\ \E k \in 1..Len(cm.log) : \E l \in (k + 1)..Len(cm.log) :
          /\ cm.log[k].outcome = "skipped"
          /\ cm.log[l].outcome = "counted"
    /\ cm.result = 3

\* The total of a list of numbers, added up from the left.
RECURSIVE TotalOf(_)
TotalOf(s) == IF s = <<>> THEN 0 ELSE TotalOf(SubSeq(s, 1, Len(s) - 1)) + s[Len(s)]

\* C14: fetchTotalStars returns the sum of stargazers_count over every
\* repository it collected, forks included: 10 for the star counts [3, 0, 7]
\* and 0 for no repository.
C14_StarsSumOverAll ==
    batch["stars"].st = "ok" =>
        LET counts == Stars(fetch["stars"].allRepos)
        IN  /\ fetch["stars"].pc = "done"
            /\ batch["stars"].v = TotalOf(counts)
            /\ counts = <<3, 0, 7>> => batch["stars"].v = 10
            /\ counts = <<>> => batch["stars"].v = 0

C14_Witness ==
    /\ batch["stars"].st = "ok"
    /\ Stars(fetch["stars"].allRepos) = <<3, 0, 7>>
    /\ fetch["stars"].allRepos[2].fork
    /\ batch["stars"].v = 10

\* C15: for a repository list of size N estimateLinesOfCode returns an integer
\* 500 * N + j with 0 <= j < 5000, so 500 * N <= linesOfCode <= 500 * N + 4999.
C15_LinesOfCodeRange ==
    batch["linesOfCode"].st = "ok" =>
        LET N == Len(fetch["loc"].allRepos)
        IN  /\ fetch["loc"].pc = "done"
            /\ batch["linesOfCode"].v \in Nat
            /\ 500 * N <= batch["linesOfCode"].v
            /\ batch["linesOfCode"].v <= 500 * N + 4999

C15_Witness ==
    /\ batch["linesOfCode"].st = "ok"
    /\ Len(fetch["loc"].allRepos) = 3
    /\ batch["linesOfCode"].v = 1500 + 4999

\* What the answers received in a run determine: each field but linesOfCode
\* as a function of the answers alone (the profile served, the pages each
\* fetchRepositories activation was served, the commit query's answer or the
\* per-repository answers logged, the searches' answers, the calendar or the
\* events served) and of "today".
Determined ==
    [name         |-> IF env.profile.name \in {Null, ""} THEN Username ELSE env.profile.name,
     username     |-> Username,
     location     |-> IF env.profile.location = Null THEN "Srilanka, Mannar"
                      ELSE env.profile.location,
     bio          |-> IF env.profile.bio = Null THEN "Undergraduate Student"
                      ELSE env.profile.bio,
     company      |-> IF env.profile.company = Null THEN "@Learning" ELSE env.profile.company,
     blog         |-> IF env.profile.blog = Null THEN "github.com/Dineshs737"
                      ELSE env.profile.blog,
     repositories |-> Len(fetch["collect"].allRepos),
     followers    |-> env.profile.followers,
     following    |-> env.profile.following,
     commits      |-> IF cm.ql = "ok"
                      THEN cm.reply.totalCommitContributions
                              + cm.reply.restrictedContributionsCount
                      ELSE IF fetch["commits"].pc = "failed" THEN 1247
                      ELSE TotalOf(LoggedCounts(cm.log)),
     pullRequests |-> IF batch["pullRequests"].reported = -1 THEN 89
                      ELSE batch["pullRequests"].reported,
     issues       |-> IF batch["issues"].reported = -1 THEN 156
                      ELSE batch["issues"].reported,
     stars        |-> TotalOf(Stars(fetch["stars"].allRepos)),
     streak       |-> IF sk.calendar = "ok" THEN RefStreak(WindowDates, ISODate(clock.now))
                      ELSE IF sk.calendar = "noweeks" \/ sk.feed = "failed" THEN 0
                      ELSE StreakOfEvents(sk.allEvents, clock.now)]

\* C16: two runs of collectStats that receive the same answers on the same
\* "today" build records that agree on every field but linesOfCode: in every
\* run, whatever the order in which the answers arrive, each such field of the
\* record is the value the answers determine.
C16_RecordDeterminedByAnswers ==
    out.built => \A field \in DOMAIN Determined : out.stats[field] = Determined[field]

C16_Witness ==
    /\ out.built
    /\ cm.ql = "failed"
    /\ fetch["commits"].pc = "done"
    /\ out.stats.commits = 3
    /\ sk.feed = "ok"
    /\ batch["pullRequests"].reported = -1
    /\ out.stats.linesOfCode = Len(fetch["loc"].allRepos) * 500 + 4999

\* C17: without the credential the process exits with status 1 before the
\* generator is constructed: no request is ever issued and no file written.
C17_NoCredentialExitsAtOnce ==
    /\ ~env.token =>
          /\ pc \in {"start", "exit1"}
          /\ pc = "exit1" => ExitStatus = 1
          /\ fetch = [c \in Callers |-> IdleFrame]
          /\ sk = IdleStreak
          /\ cm = IdleCommits
          /\ batch = IdleBatch
          /\ run = NoRun
          /\ out = NoOutput
    /\ ExitStatus = 1 => ~env.token

C17_Witness ==
    /\ ~env.token
    /\ pc = "exit1"
    /\ ExitStatus = 1
    /\ out.files = <<>>

\* C18: at the end of every run, successful or failed at any step, either all
\* six output files have been written by the run or none has.
C18_FilesAllOrNothing ==
    ExitStatus # -1 => Len(out.files) \in {0, Len(FileNames)}

\* C19: fetchRepositories requests pages 1, 2, 3, ... in increasing order,
\* each once; it goes on exactly while the page just fetched holds 100 items
\* and stops right after the first shorter (possibly empty) page; on a stable
\* remote of N repositories it makes exactly floor(N / 100) + 1 requests.
C19_PageRequests ==
    LET f == fetch["collect"]
        k == Len(f.requested)
    IN  /\ f.requested = [i \in 1..k |-> i]
        /\ f.pc = "await" => (f.page = k /\ Len(f.allRepos) = 100 * (k - 1))
        /\ f.pc = "done" =>
              (100 * (k - 1) <= Len(f.allRepos) /\ Len(f.allRepos) < 100 * k)
        /\ (f.pc = "done" /\ changes = 0) => k = (remote.n \div 100) + 1

C19_Witness ==
    /\ fetch["collect"].pc = "done"
    /\ changes = 0
    /\ remote.n = 200
    /\ fetch["collect"].requested = <<1, 2, 3>>

\* C20: a failing page request of fetchRepositories propagates: the failed
\* page is the last one requested, and the pages fetched before it are handed
\* to nobody; when it (or the user lookup before it) fails in collectStats' own
\* collection, collectStats ends without a record and goes no further.
C20_FetchFailurePropagates ==
    LET f == fetch["collect"]
        k == Len(f.requested)
    IN  /\ f.pc = "failed" =>
              /\ f.requested = [i \in 1..k |-> i]
              /\ f.page = k
              /\ Len(f.allRepos) = 100 * (k - 1)
              /\ pc = "caught"
              /\ run.repos = <<>>
        /\ pc = "caught" =>
              /\ f.pc \in {"idle", "failed"}
              /\ f.pc = "idle" => run = NoRun
              /\ ~out.built /\ out.files = <<>>
              /\ cm = IdleCommits /\ batch = IdleBatch /\ sk = IdleStreak

C20_Witness ==
    /\ fetch["collect"].pc = "failed"
    /\ fetch["collect"].requested = <<1, 2>>
    /\ Len(fetch["collect"].allRepos) = 100
    /\ pc = "caught"
    /\ run.repos = <<>>

\* A step in which a per-repository commit request is issued.
IssuesCommitRequest ==
    /\ cm'.pc \in {"listCommits", "request"}
    /\ (cm'.pc # cm.pc \/ cm'.i # cm.i)

\* C22: in the repository-by-repository count at most one per-repository
\* request is in flight, and the request that opens the next repository is
\* issued by the end of a delay, whether the earlier repository's request
\* succeeded, was skipped (404 / 409) or failed otherwise.
C22_RequestsArePaced ==
    [][(cm'.pc = "listCommits" /\ cm.pc \in {"listCommits", "request", "delay"})
          => cm.pc = "delay"]_vars

\* C23: no commit request is issued for a fork, and for each repository that
\* is not a fork exactly one commit-listing request is issued: every request
\* issued is for a repository further down the list, never a fork.
C23_OneRequestPerRepository ==
    [][IssuesCommitRequest => (cm'.i > cm.i /\ ~cm'.repos[cm'.i].fork)]_vars

\* C24: the count a repository adds is the page number of the rel="last"
\* entry of the Link header received when there is one, and exactly 1 when
\* there is no Link header or no such entry; it is at least 1.
C24_CountFromLinkHeader ==
    cm.pc = "delay" =>
        LET h     == cm.linkHeader
            entry == cm.log[Len(cm.log)]
            last  == {k \in 1..Len(h) : h[k].rel = "last"}
        IN  /\ entry.repo = cm.repos[cm.i].name
            /\ entry.outcome = "counted"
            /\ last # {} => \E k \in last : entry.count = h[k].page
            /\ last = {} => entry.count = 1
            /\ entry.count >= 1
            /\ cm.totalCommits = TotalOf(LoggedCounts(cm.log))

C24_Witness ==
    /\ cm.pc = "delay"
    /\ cm.linkHeader # <<>>
    /\ \A k \in 1..Len(cm.linkHeader) : cm.linkHeader[k].rel # "last"
    /\ cm.log[Len(cm.log)].count = 1
    /\ cm.totalCommits = 4

\* C27: a per-repository failure of any status is absorbed in the loop: the
\* loop still ends of itself, 1247 is returned only when the repository
\* collection threw, and the result is 0 when every per-repository request
\* failed.
C27_FailuresAbsorbed ==
    /\ cm.result = 1247 => fetch["commits"].pc = "failed"
    /\ (cm.pc = "done" /\ fetch["commits"].pc = "done") =>
          /\ Len(cm.log) = Len(cm.repos)
          /\ (\A k \in 1..Len(cm.log) : cm.log[k].outcome \in {"fork", "skipped", "error"})
                => cm.result = 0

C27_Witness ==
    /\ cm.pc = "done"
    /\ fetch["commits"].pc = "done"
    /\ Len(cm.log) = 3
    /\ cm.log[1].outcome = "error"
    /\ cm.log[3].outcome = "skipped"
    /\ cm.result = 0

\* C25: the event-based calculateStreak requests the events pages 1, 2, 3 in
\* order, 100 per page, and no fourth one; it stops at the first empty page,
\* examines at most 300 events, and its result never exceeds the number of
\* distinct dates of the events collected.
C25_EventPagesBounded ==
    sk.rev = "current" =>
        /\ Len(sk.requested) <= 3
        /\ \A k \in 1..Len(sk.requested) : sk.requested[k] = k
        /\ Len(sk.allEvents) <= 3 * per_page
        /\ \A k \in 1..(Len(sk.requested) - 1) :
              Len(listPublicEventsForUser(activity, k)) > 0
        /\ (sk.pc = "returned" /\ sk.feed = "ok") =>
              /\ \/ Len(sk.requested) = 3 /\ Len(sk.allEvents) = 3 * per_page
                 \/ Len(listPublicEventsForUser(activity, Len(sk.requested))) = 0
              /\ sk.result <= Cardinality(CollectedDates)

C25_Witness ==
    /\ sk.rev = "current"
    /\ sk.pc = "returned"
    /\ sk.feed = "ok"
    /\ sk.requested = <<1, 2, 3>>
    /\ Len(sk.allEvents) = 3 * per_page
    /\ Len(EventFeed(activity)) > 3 * per_page
    /\ sk.result = 2

\* C26: for every set D of distinct dates, none in the future, the event-based
\* fallback on a feed with dates D returns at least the streak the
\* calendar-based algorithm returns on D, and each of the two is 0 exactly
\* when D is empty or its most recent date is older than yesterday.
C26_FallbackAtLeastPrimary ==
    (/\ sk.pc = "returned" /\ sk.rev = "current"
     /\ sk.calendar = "failed" /\ sk.feed = "ok"
     /\ CollectedDates = ActiveDays(activity)
     /\ WindowDates = ActiveDays(activity))
        => LET D       == ActiveDays(activity)
               primary == StreakOfCalendar(
                              CalendarWeeks(activity, WindowFrom(clock), clock.now), clock.now)
               none    == D = {} \/ SetMax(D) < ISODate(clock.now) - 1
           IN  /\ sk.result >= primary
               /\ sk.result = 0 <=> none
               /\ primary = 0 <=> none

C26_Witness ==
    /\ sk.pc = "returned" /\ sk.rev = "current"
    /\ sk.calendar = "failed" /\ sk.feed = "ok"
    /\ ~activity.tail
    /\ activity.recent = {0, 2}
    /\ sk.result = 2
    /\ StreakOfCalendar(CalendarWeeks(activity, WindowFrom(clock), clock.now), clock.now) = 1

\* The dates of the events page the earlier revision reads.
FirstPageDates ==
    LET events == listPublicEventsForUser(activity, 1)
    IN  {ISODate(events[i].created_at) : i \in 1..Len(events)}

\* C30: the earlier revision's calculateStreak never returns 0: a computed 0
\* is replaced by 47, the literal of its transport-error fallback, and any
\* other value lies in [1, 365]; a day without an event today does not break
\* the streak, the walk goes on from yesterday.
C30_EarlierNeverZero ==
    (sk.rev = "earlier" /\ sk.pc = "returned") =>
        LET today == ISODate(clock.now)
            D     == FirstPageDates
        IN  /\ sk.result \in 1..365
            /\ sk.feed = "failed" => sk.result = 47
            /\ (sk.feed = "ok" /\ today \notin D /\ (today - 1) \notin D) => sk.result = 47
            /\ (sk.feed = "ok" /\ (today \in D \/ (today - 1) \in D))
                  => sk.result = RefStreak(D, today)

C30_Witness ==
    /\ sk.rev = "earlier"
    /\ sk.pc = "returned"
    /\ sk.feed = "ok"
    /\ ~activity.tail
    /\ activity.recent = {1, 2}
    /\ sk.result = 2

\* C21: inside collectStats the profile lookup is over before the repository
\* collection starts, the collection before the commit count starts, the
\* commit count (its whole fallback included) before any of the five
\* aggregators of the batch starts; the five are all started before any is
\* awaited, and the record is built only after all five were fulfilled.
C21_StagesInOrder ==
    /\ fetch["collect"].pc # "idle" => pc \notin {"start", "userData", "exit1"}
    /\ pc \in {"start", "userData"} => run = NoRun
    /\ cm.pc # "idle" => (fetch["collect"].pc = "done" /\ run.repos = fetch["collect"].allRepos)
    /\ (\/ \E n \in Slots : batch[n].st # "idle"
        \/ fetch["stars"].pc # "idle"
        \/ fetch["loc"].pc # "idle"
        \/ sk.pc # "idle")
          => /\ cm.pc = "done"
             /\ fetch["commits"].pc # "await"
             /\ run.commits = cm.result
             /\ \A n \in Slots : batch[n].st # "idle"
             /\ fetch["stars"].pc # "idle"
             /\ fetch["loc"].pc # "idle"
             /\ sk.pc # "idle"
    /\ out.built => \A n \in Slots : batch[n].st = "ok"

C21_Witness ==
    /\ out.built
    /\ cm.pc = "done"
    /\ cm.ql = "failed"
    /\ cm.processedRepos = 1
    /\ \A n \in Slots : batch[n].st = "ok"
    /\ pc = "finished"

\* The activations of fetchRepositories made so far.
Collections == {c \in Callers : fetch[c].pc # "idle"}

\* C28: in a run of collectStats that succeeds the repository collection is
\* made exactly 3 times when the commit query succeeds and 4 times when it
\* fails; the collections of fetchTotalStars and estimateLinesOfCode are
\* started together and are in flight at the same time, and neither
\* aggregator reuses the list collectStats holds.
C28_CollectionsPerRun ==
    /\ out.built =>
          /\ Cardinality(Collections) = IF cm.ql = "ok" THEN 3 ELSE 4
          /\ Collections = IF cm.ql = "ok" THEN {"collect", "stars", "loc"} ELSE Callers
          /\ \A c \in Collections : fetch[c].requested # <<>> /\ fetch[c].requested[1] = 1
    /\ pc = "batch" => (fetch["stars"].pc # "idle" /\ fetch["loc"].pc # "idle")
    /\ fetch["stars"].pc = "idle" <=> fetch["loc"].pc = "idle"
    /\ batch["stars"].st = "ok" =>
          (fetch["stars"].pc = "done"
             /\ batch["stars"].v = TotalStars(fetch["stars"].allRepos))
    /\ batch["linesOfCode"].st = "ok" =>
          (fetch["loc"].pc = "done"
             /\ batch["linesOfCode"].v - LinesPerRepo * Len(fetch["loc"].allRepos)
                   \in 0..(JitterRange - 1))

C28_Witness ==
    /\ out.built
    /\ cm.ql = "failed"
    /\ Cardinality(Collections) = 4
    /\ fetch["stars"].allRepos # run.repos
    /\ out.stats.stars = TotalStars(fetch["stars"].allRepos)
    /\ out.stats.stars # TotalStars(run.repos)

C28_InFlightTogether ==
    /\ fetch["stars"].pc = "await"
    /\ fetch["loc"].pc = "await"
    /\ fetch["stars"].requested = <<1>>
    /\ fetch["loc"].requested = <<1>>

\* C29: generate() writes no file before collectStats has returned, and all
\* four documents are rendered from that one record: every SVG file written
\* embeds the fields of the same record; when collectStats fails no output
\* file is touched.
C29_FilesFromOneRecord ==
    /\ out.files # <<>> =>
          /\ out.built
          /\ \A n \in Slots : batch[n].st = "ok"
          /\ out.stats = BuildStats(run.userData, run.repos, run.commits, batch)
    /\ \A i \in 1..Len(out.files) :
          /\ out.files[i].name = FileNames[i]
          /\ out.files[i].name # "README.md" => out.files[i].content.stats = out.stats
    /\ ~out.built => out.files = <<>>
    /\ (pc = "caught" /\ \E n \in Slots : batch[n].st # "ok") => out.files = <<>>

C29_Witness ==
    /\ out.built
    /\ Len(out.files) = Len(FileNames)
    /\ out.stats.repositories = 1
    /\ out.stats.commits = 7
    /\ out.files[4].content.stats = out.stats
    /\ out.files[5].content.stats.streak = out.stats.streak

====
